---- MODULE Spec2Model ----
(***************************************************************************)
(* Model of src/bot_enterprise.py: the policy store (two SQLite tables),   *)
(* the rate limiter, the lru_cache around the provider's translate call    *)
(* and the message handler that composes them.                             *)
(*                                                                         *)
(* Strings of message text are sequences of one-character strings;         *)
(* language codes and command arguments are TLA+ strings.  Time is the     *)
(* wall clock read by is_rate_limited, in whole seconds.                   *)
(***************************************************************************)
EXTENDS Integers, Sequences, FiniteSets, TLC

(* ---------------------------- bounds ----------------------------------- *)
\* Number of inbound messages dispatched in one behaviour.
MaxMessages == 3
\* Number of clock ticks (seconds) that pass in one behaviour.
MaxTicks == 2
\* Capacity of the cache in SpecCache: maxsize scaled down so that the cache
\* fills up within MaxMessages messages.
MaxEntries == 2

Chats == {1, 2}
Users == {7}
Msgs == 1..MaxMessages

(* ---------------------------- constants -------------------------------- *)
SUPPORTED_LANGUAGES ==
    {"en", "ru", "hi", "bn", "es", "fr", "de", "it", "pt", "tr",
     "ar", "ur", "fa", "ja", "ko", "zh-cn", "zh-tw", "vi", "th", "id",
     "ms", "nl", "pl", "uk", "ro", "el", "sv", "no", "fi", "he"}

RATE_SECONDS == 2
maxsize == 5000

\* Column defaults of the two tables.
ChatDefaults == [enabled |-> 1, target_lang |-> "en"]
UserDefaults == [enabled |-> 1]

\* fetchone() of a key that has no row.
NoRow == [absent |-> TRUE]

(* ---------------------------- inputs ----------------------------------- *)
\* message.text / message.caption; NoText stands for None (a falsy value).
NoText == << >>
Hola == <<"h", "o", "l", "a">>
Punct == <<"?", "!">>
Ola == <<"o", "l", "a">>
\* <<message.text, message.caption>> of the inbound messages.
Payloads == { <<Hola, NoText>>, <<Punct, NoText>>, <<NoText, Hola>>, <<NoText, NoText>> }

\* context.args of /setlang: none, a supported code, the same code typed in
\* capitals, a code that is not supported.
SetlangArgs == { << >>, <<"es">>, <<"ES">>, <<"xx">> }

\* What GoogleTranslator().detect returns, or that it raises.
Raises == "<exception>"
DetectOutcomes == {"en", "es", Raises}
\* Texts the provider's translate may return.
Translations == {"tr-a", "tr-b"}

(* ---------------------------- state ------------------------------------ *)
VARIABLES
    chat_settings,   \* table chat_settings: chat_id -> row or NoRow
    user_settings,   \* table user_settings: user_id -> row or NoRow
    RATE_LIMIT,      \* dict: rate key -> time of the last admitted check
    now,             \* time.time()
    cache,           \* lru_cache of cached_translate, least recently used first
    inv,             \* the invocations of handle_message, one per message
    dispatched,      \* number of messages handed to handle_message so far
    cmd_reply        \* text of the reply sent by the last command handler

vars == <<chat_settings, user_settings, RATE_LIMIT, now, cache, inv,
          dispatched, cmd_reply>>

(* ---------------------------- strings ---------------------------------- *)
WordChars == {"h", "o", "l", "a"}

\* re.search(r"\w", text)
has_text(text) == \E i \in 1..Len(text) : text[i] \in WordChars

LowerTable == [s \in {"ES", "es", "xx", "EN", "en"} |->
                 CASE s = "ES" -> "es" [] s = "EN" -> "en" [] OTHER -> s]
\* str.lower()
lower(s) == IF s \in DOMAIN LowerTable THEN LowerTable[s] ELSE s

UpperTable == [s \in {"en", "es", "auto"} |->
                 CASE s = "en" -> "EN" [] s = "es" -> "ES" [] OTHER -> "AUTO"]
\* str.upper()
upper(s) == IF s \in DOMAIN UpperTable THEN UpperTable[s] ELSE s

(* ---------------------------- settings access -------------------------- *)
chat_enabled(chat_id) ==
    LET row == chat_settings[chat_id]
    IN  IF row # NoRow THEN row.enabled = 1 ELSE TRUE

user_enabled(user_id) ==
    LET row == user_settings[user_id]
    IN  IF row # NoRow THEN row.enabled = 1 ELSE TRUE

chat_target(chat_id) ==
    LET row == chat_settings[chat_id]
    IN  IF row # NoRow THEN row.target_lang ELSE "en"

(* ---------------------------- REPLACE INTO ---------------------------- *)
\* REPLACE INTO t(key, col) VALUES (k, v): the row of k, if any, is deleted
\* and a new row is inserted; columns that are not named take their default.
replace_chat_enabled(table, chat_id, value) ==
    [table EXCEPT ![chat_id] = [ChatDefaults EXCEPT !.enabled = value]]

replace_chat_target(table, chat_id, lang) ==
    [table EXCEPT ![chat_id] = [ChatDefaults EXCEPT !.target_lang = lang]]

replace_user_enabled(table, user_id, value) ==
    [table EXCEPT ![user_id] = [UserDefaults EXCEPT !.enabled = value]]

(* ---------------------------- commands --------------------------------- *)
translate_on(chat_id) ==
    /\ chat_settings' = replace_chat_enabled(chat_settings, chat_id, 1)
    /\ cmd_reply' = <<"Translation enabled in this chat">>
    /\ UNCHANGED <<user_settings, RATE_LIMIT, now, cache, inv, dispatched>>

translate_off(chat_id) ==
    /\ chat_settings' = replace_chat_enabled(chat_settings, chat_id, 0)
    /\ cmd_reply' = <<"Translation disabled in this chat">>
    /\ UNCHANGED <<user_settings, RATE_LIMIT, now, cache, inv, dispatched>>

user_on(user_id) ==
    /\ user_settings' = replace_user_enabled(user_settings, user_id, 1)
    /\ cmd_reply' = <<"Translation enabled for you">>
    /\ UNCHANGED <<chat_settings, RATE_LIMIT, now, cache, inv, dispatched>>

user_off(user_id) ==
    /\ user_settings' = replace_user_enabled(user_settings, user_id, 0)
    /\ cmd_reply' = <<"Translation disabled for you">>
    /\ UNCHANGED <<chat_settings, RATE_LIMIT, now, cache, inv, dispatched>>

\* The test of line 195 left out.
lang_supported_any(lang) == TRUE

\* The test of line 195.
lang_supported(lang) == lang \in SUPPORTED_LANGUAGES

\* setlang without the return of line 197: the rejected code is written.
setlang_no_return(chat_id, args) ==
    IF args = << >>
    THEN /\ cmd_reply' = <<"Usage: /setlang <language_code>">>
         /\ UNCHANGED <<chat_settings, user_settings, RATE_LIMIT, now, cache, inv,
                        dispatched>>
    ELSE LET lang == lower(args[1])
         IN  /\ chat_settings' = replace_chat_target(chat_settings, chat_id, lang)
             /\ cmd_reply' = IF ~(lang \in SUPPORTED_LANGUAGES)
                             THEN <<"Unsupported language. Use /languages">>
                             ELSE <<"Target language set to", lang>>
             /\ UNCHANGED <<user_settings, RATE_LIMIT, now, cache, inv, dispatched>>

setlang(chat_id, args) ==
    IF args = << >>
    THEN /\ cmd_reply' = <<"Usage: /setlang <language_code>">>
         /\ UNCHANGED <<chat_settings, user_settings, RATE_LIMIT, now, cache, inv,
                        dispatched>>
    ELSE LET lang == lower(args[1])
         IN  IF ~lang_supported(lang)
             THEN /\ cmd_reply' = <<"Unsupported language. Use /languages">>
                  /\ UNCHANGED <<chat_settings, user_settings, RATE_LIMIT, now, cache,
                                 inv, dispatched>>
             ELSE /\ chat_settings' = replace_chat_target(chat_settings, chat_id, lang)
                  /\ cmd_reply' = <<"Target language set to", lang>>
                  /\ UNCHANGED <<user_settings, RATE_LIMIT, now, cache, inv, dispatched>>

(* ---------------------------- rate limiting ---------------------------- *)
\* f"{chat_id}:{user_id}"
rate_key(chat_id, user_id) == <<chat_id, user_id>>

\* RATE_LIMIT.get(key, 0)
rate_last(key) == IF key \in DOMAIN RATE_LIMIT THEN RATE_LIMIT[key] ELSE 0

\* Line 119 with <= for <.
within_cooldown_inclusive(t, last) == t - last <= RATE_SECONDS

\* Line 119 with its operands exchanged.
within_cooldown_swapped(t, last) == last - t < RATE_SECONDS

\* The test of line 119.
within_cooldown(t, last) == t - last < RATE_SECONDS

\* The return value of is_rate_limited(key) called at time now.
is_rate_limited(key) == within_cooldown(now, rate_last(key))

\* is_rate_limited without line 121: an allowed check leaves no timestamp.
rate_limit_after_unwritten(key) == RATE_LIMIT

\* RATE_LIMIT after is_rate_limited(key) called at time now.
rate_limit_after(key) ==
    IF is_rate_limited(key)
    THEN RATE_LIMIT
    ELSE [k \in DOMAIN RATE_LIMIT \cup {key} |-> IF k = key THEN now ELSE RATE_LIMIT[k]]

\* The clock advances by one second.
Tick ==
    /\ now < RATE_SECONDS + MaxTicks
    /\ now' = now + 1
    /\ UNCHANGED <<chat_settings, user_settings, RATE_LIMIT, cache, inv, dispatched,
                   cmd_reply>>

(* ---------------------------- translation cache ------------------------ *)
\* The cache of @lru_cache(maxsize=5000): entries [key, value, used], the
\* least recently used first.  A key is the argument tuple <<text, src, dst>>.
cache_index(c, key) ==
    IF \E i \in 1..Len(c) : c[i].key = key
    THEN CHOOSE i \in 1..Len(c) : c[i].key = key
    ELSE 0

cache_has(c, key) == cache_index(c, key) # 0

cache_value(c, key) == c[cache_index(c, key)].value

\* History kept with each entry: used is the position of the entry's last
\* use (its insertion or its last hit) in the order of all uses of the cache.
next_use(c) ==
    IF c = << >> THEN 1
    ELSE 1 + (CHOOSE n \in {c[i].used : i \in 1..Len(c)} :
                 \A i \in 1..Len(c) : c[i].used <= n)

\* A hit moves the entry to the most-recently-used end.
lru_touch(c, key) ==
    LET i == cache_index(c, key)
    IN  SubSeq(c, 1, i - 1) \o SubSeq(c, i + 1, Len(c))
            \o <<[c[i] EXCEPT !.used = next_use(c)]>>

\* A full cache that makes room by dropping its newest entry.
lru_store_newest_out(c, key, value, cap) ==
    LET entry == [key |-> key, value |-> value, used |-> next_use(c)]
    IN  IF cache_has(c, key) THEN c
        ELSE IF Len(c) >= cap THEN Append(SubSeq(c, 1, Len(c) - 1), entry)
        ELSE Append(c, entry)

\* Storing the result of a miss: nothing if the key was stored while the
\* call ran; otherwise the oldest entry makes room when the cache is full.
lru_store(c, key, value, cap) ==
    LET entry == [key |-> key, value |-> value, used |-> next_use(c)]
    IN  IF cache_has(c, key) THEN c
        ELSE IF Len(c) >= cap THEN Append(Tail(c), entry)
        ELSE Append(c, entry)

\* A memoizer that stores the failure under the key.
cache_after_raise_stored(c, key) ==
    Append(c, [key |-> key, value |-> Raises, used |-> next_use(c)])

\* The cache after a call of the wrapped function raised.
cache_after_raise(c, key) == c

(* ---------------------------- detection -------------------------------- *)
\* detect_lang without its try/except: the failure is what comes back.
detect_lang_unguarded(outcome) == outcome

\* detect_lang: the provider's answer, or "auto" when it raises.
detect_lang(outcome) == IF outcome = Raises THEN "auto" ELSE outcome

(* ---------------------------- handle_message --------------------------- *)
NewInv == [pc |-> "new", chat |-> 0, user |-> 0, text |-> NoText, src |-> "",
           dst |-> "", translated |-> "", checked_at |-> -1, admitted |-> FALSE,
           detect_calls |-> 0, translate_calls |-> 0, replies |-> << >>, gate |-> ""]

\* message.text or message.caption
text_or_caption(payload) == IF payload[1] # NoText THEN payload[1] ELSE payload[2]

\* Line 254 without its second operand.
policy_allows_chat_only(chat_id, user_id) == chat_enabled(chat_id)

\* The test of line 254.
policy_allows(chat_id, user_id) == chat_enabled(chat_id) /\ user_enabled(user_id)

\* Line 266 left out: a text already in the target language is translated.
same_language_never(src, dst) == FALSE

\* The test of line 266.
same_language(src, dst) == src = dst

\* The arguments in another order: translate(text, dst, src).
triple_swapped(r) == <<r.text, r.dst, r.src>>

\* The arguments of the translate call of an invocation (line 269).
triple(r) == <<r.text, r.src, r.dst>>

\* handle_message from its entry to its first suspension (the await of
\* translate_async) or to an early return.  The event loop runs this part
\* without interleaving: it holds no await.
handle_message(m, chat_id, user_id, payload, detected) ==
    /\ m = dispatched + 1
    /\ m <= MaxMessages
    /\ dispatched' = m
    /\ LET base == [NewInv EXCEPT !.chat = chat_id, !.user = user_id]
           key  == rate_key(chat_id, user_id)
           text == text_or_caption(payload)
           src  == detect_lang(detected)
           dst  == chat_target(chat_id)
       IN  IF ~policy_allows(chat_id, user_id)
           THEN /\ inv' = [inv EXCEPT ![m] = [base EXCEPT !.pc = "dropped", !.gate = "policy"]]
                /\ UNCHANGED RATE_LIMIT
           ELSE IF is_rate_limited(key)
           THEN /\ inv' = [inv EXCEPT ![m] = [base EXCEPT !.pc = "dropped", !.gate = "rate",
                                                         !.checked_at = now]]
                /\ RATE_LIMIT' = rate_limit_after(key)
           ELSE /\ RATE_LIMIT' = rate_limit_after(key)
                /\ LET adm == [base EXCEPT !.checked_at = now, !.admitted = TRUE]
                   IN  IF text = NoText \/ ~has_text(text)
                       THEN inv' = [inv EXCEPT ![m] = [adm EXCEPT !.pc = "dropped",
                                                                 !.gate = "text", !.text = text]]
                       ELSE IF same_language(src, dst)
                       THEN inv' = [inv EXCEPT ![m] = [adm EXCEPT !.pc = "dropped",
                                       !.gate = "same", !.text = text, !.src = src,
                                       !.dst = dst, !.detect_calls = 1]]
                       ELSE inv' = [inv EXCEPT ![m] = [adm EXCEPT !.pc = "queued",
                                       !.text = text, !.src = src, !.dst = dst,
                                       !.detect_calls = 1]]
    /\ UNCHANGED <<chat_settings, user_settings, now, cache, cmd_reply>>

\* cached_translate without the decorator of line 136: every call goes to
\* the provider.
cached_translate_enter_uncached(m) ==
    /\ inv[m].pc = "queued"
    /\ cache' = cache
    /\ inv' = [inv EXCEPT ![m].pc = "calling", ![m].translate_calls = 1]
    /\ UNCHANGED <<chat_settings, user_settings, RATE_LIMIT, now, dispatched,
                   cmd_reply>>

\* The executor's thread enters cached_translate: the lru_cache wrapper looks
\* the arguments up; a hit returns the stored value, a miss calls the provider.
cached_translate_enter(m) ==
    /\ inv[m].pc = "queued"
    /\ LET key == triple(inv[m])
       IN  IF cache_has(cache, key)
           THEN /\ cache' = lru_touch(cache, key)
                /\ inv' = [inv EXCEPT ![m].pc = "returned",
                                      ![m].translated = cache_value(cache, key)]
           ELSE /\ cache' = cache
                /\ inv' = [inv EXCEPT ![m].pc = "calling", ![m].translate_calls = 1]
    /\ UNCHANGED <<chat_settings, user_settings, RATE_LIMIT, now, dispatched,
                   cmd_reply>>

\* GoogleTranslator(...).translate returns: the wrapper stores the result.
provider_returns_at(m, value, cap) ==
    /\ inv[m].pc = "calling"
    /\ cache' = lru_store(cache, triple(inv[m]), value, cap)
    /\ inv' = [inv EXCEPT ![m].pc = "returned", ![m].translated = value]
    /\ UNCHANGED <<chat_settings, user_settings, RATE_LIMIT, now, dispatched,
                   cmd_reply>>

\* The same with the capacity the decorator was given.
provider_returns(m, value) == provider_returns_at(m, value, maxsize)

\* GoogleTranslator(...).translate raises: the exception leaves the wrapper.
provider_raises(m) ==
    /\ inv[m].pc = "calling"
    /\ cache' = cache_after_raise(cache, triple(inv[m]))
    /\ inv' = [inv EXCEPT ![m].pc = "failed"]
    /\ UNCHANGED <<chat_settings, user_settings, RATE_LIMIT, now, dispatched,
                   cmd_reply>>

\* Line 270 in a handler that does not end after it: the reply can be sent
\* again.
reply_text_again(m) ==
    /\ inv[m].pc = "returned"
    /\ Len(inv[m].replies) < 2
    /\ inv' = [inv EXCEPT ![m].replies = Append(@, <<upper(inv[m].src), upper(inv[m].dst),
                                                     inv[m].translated>>)]
    /\ UNCHANGED <<chat_settings, user_settings, RATE_LIMIT, now, cache, dispatched,
                   cmd_reply>>

\* Line 270 with the target read again from the table when the reply is made.
reply_text_rereads(m) ==
    /\ inv[m].pc = "returned"
    /\ inv' = [inv EXCEPT ![m].pc = "replied",
                          ![m].replies = Append(@, <<upper(inv[m].src),
                                                     upper(chat_target(inv[m].chat)),
                                                     inv[m].translated>>)]
    /\ UNCHANGED <<chat_settings, user_settings, RATE_LIMIT, now, cache, dispatched,
                   cmd_reply>>

\* The await of line 269 yields the value and line 270 sends the reply.
reply_text(m) ==
    /\ inv[m].pc = "returned"
    /\ inv' = [inv EXCEPT ![m].pc = "replied",
                          ![m].replies = Append(@, <<upper(inv[m].src), upper(inv[m].dst),
                                                     inv[m].translated>>)]
    /\ UNCHANGED <<chat_settings, user_settings, RATE_LIMIT, now, cache, dispatched,
                   cmd_reply>>

\* An await that never resumes after the worker's call failed.
exception_propagates_lost(m) ==
    /\ inv[m].pc = "failed"
    /\ UNCHANGED vars

\* The await of line 269 re-raises the worker's exception; handle_message has
\* no handler for it, so it leaves handle_message.
exception_propagates(m) ==
    /\ inv[m].pc = "failed"
    /\ inv' = [inv EXCEPT ![m].pc = "raised"]
    /\ UNCHANGED <<chat_settings, user_settings, RATE_LIMIT, now, cache, dispatched,
                   cmd_reply>>

(* ---------------------------- specification ---------------------------- *)
\* The tables are empty, no message has arrived, and the wall clock (seconds
\* since the epoch) is past the first cooldown.
Init ==
    /\ chat_settings = [c \in Chats |-> NoRow]
    /\ user_settings = [u \in Users |-> NoRow]
    /\ RATE_LIMIT = << >>
    /\ now = RATE_SECONDS
    /\ cache = << >>
    /\ inv = [m \in Msgs |-> NewInv]
    /\ dispatched = 0
    /\ cmd_reply = << >>

Next ==
    \/ \E c \in Chats : translate_on(c)
    \/ \E c \in Chats : translate_off(c)
    \/ \E u \in Users : user_on(u)
    \/ \E u \in Users : user_off(u)
    \/ \E c \in Chats, a \in SetlangArgs : setlang(c, a)
    \/ \E m \in Msgs, c \in Chats, u \in Users, p \in Payloads, d \in DetectOutcomes :
          handle_message(m, c, u, p, d)
    \/ \E m \in Msgs : cached_translate_enter(m)
    \/ \E m \in Msgs, v \in Translations : provider_returns(m, v)
    \/ \E m \in Msgs : provider_raises(m)
    \/ \E m \in Msgs : reply_text(m)
    \/ \E m \in Msgs : exception_propagates(m)
    \/ Tick

Spec == Init /\ [][Next]_vars

(* The component specifications below restrict Next to the actions that     *)
(* write the variables a property reads; each keeps Init and the variables. *)

\* The command surface alone: the only actions that write the two tables.
NextPolicy ==
    \/ \E c \in Chats : translate_on(c)
    \/ \E c \in Chats : translate_off(c)
    \/ \E u \in Users : user_on(u)
    \/ \E u \in Users : user_off(u)
    \/ \E c \in Chats, a \in SetlangArgs : setlang(c, a)

SpecPolicy == Init /\ [][NextPolicy]_vars

\* Messages and the clock: the only actions that write RATE_LIMIT and now.
NextAdmission ==
    \/ \E m \in Msgs, c \in Chats, u \in Users, p \in Payloads, d \in DetectOutcomes :
          handle_message(m, c, u, p, d)
    \/ Tick

SpecAdmission == Init /\ [][NextAdmission]_vars

\* Messages and the executor's threads: the only actions that write the
\* cache and the invocations.  All messages arrive within one second.
NextTranslate ==
    \/ \E m \in Msgs, c \in Chats, u \in Users, p \in Payloads, d \in DetectOutcomes :
          handle_message(m, c, u, p, d)
    \/ \E m \in Msgs : cached_translate_enter(m)
    \/ \E m \in Msgs, v \in Translations : provider_returns(m, v)
    \/ \E m \in Msgs : provider_raises(m)
    \/ \E m \in Msgs : reply_text(m)
    \/ \E m \in Msgs : exception_propagates(m)

SpecTranslate == Init /\ [][NextTranslate]_vars

\* The same under a fair scheduler: the executor runs every queued call, every
\* provider call returns or raises, and the event loop resumes every
\* coroutine whose awaited call is done.
SpecTranslateFair ==
    /\ SpecTranslate
    /\ \A m \in Msgs :
          /\ WF_vars(cached_translate_enter(m))
          /\ WF_vars((\E v \in Translations : provider_returns(m, v)) \/ provider_raises(m))
          /\ WF_vars(reply_text(m))
          /\ WF_vars(exception_propagates(m))

\* Messages and the enable/disable commands.
NextGates ==
    \/ \E c \in Chats : translate_on(c)
    \/ \E c \in Chats : translate_off(c)
    \/ \E u \in Users : user_on(u)
    \/ \E u \in Users : user_off(u)
    \/ \E m \in Msgs, c \in Chats, u \in Users, p \in Payloads, d \in DetectOutcomes :
          handle_message(m, c, u, p, d)

SpecGates == Init /\ [][NextGates]_vars

\* Messages with text that arrive from the two chats in turn, the clock and
\* the executor's threads, the provider always answering, around a cache of
\* MaxEntries entries.
CachePayloads == { <<Hola, NoText>>, <<Ola, NoText>> }

NextCache ==
    \/ \E m \in Msgs, u \in Users, p \in CachePayloads, d \in {"es", Raises} :
          handle_message(m, 1 + (m % 2), u, p, d)
    \/ \E m \in Msgs : cached_translate_enter(m)
    \/ \E m \in Msgs, v \in Translations : provider_returns_at(m, v, MaxEntries)
    \/ Tick

SpecCache == Init /\ [][NextCache]_vars

\* Text messages and the executor's threads, the provider always answering,
\* together with the commands that change what handle_message read.
NextRace ==
    \/ \E c \in Chats : setlang(c, <<"es">>)
    \/ \E c \in Chats : translate_off(c)
    \/ \E u \in Users : user_off(u)
    \/ \E m \in Msgs, c \in Chats, u \in Users, d \in {"en", "es"} :
          handle_message(m, c, u, <<Hola, NoText>>, d)
    \/ \E m \in Msgs : cached_translate_enter(m)
    \/ \E m \in Msgs, v \in Translations : provider_returns(m, v)
    \/ \E m \in Msgs : reply_text(m)

SpecRace == Init /\ [][NextRace]_vars

(* ======================================================================= *)
(* Properties                                                              *)
(* ======================================================================= *)
Disabled(row) == row # NoRow /\ row.enabled = 0

\* The invocation of message m reached the admission check.
Checked(m) == inv[m].checked_at >= 0

SameKey(m1, m2) == inv[m1].chat = inv[m2].chat /\ inv[m1].user = inv[m2].user

\* The invocation of message m called translate_async.
Translating(m) == inv[m].pc \in {"queued", "calling", "returned", "failed", "replied", "raised"}

\* The translate call of message m returned a value.
Returned(m) == inv[m].pc \in {"returned", "replied"}

InCache(key) == \E i \in 1..Len(cache) : cache[i].key = key

(* ----------------------------------------------------------------------- *)
\* C1: /translate_on and /translate_off leave the chat's target language as
\* it was: enabling or disabling never resets a language set by /setlang.
C1_EnableDisableKeepsTarget ==
    [][\A c \in Chats :
          (translate_on(c) \/ translate_off(c)) => chat_target(c)' = chat_target(c)]_vars

(* ----------------------------------------------------------------------- *)
\* C2: /setlang leaves the chat's enabled flag as it was: a chat disabled by
\* /translate_off is still disabled after /setlang.
C2_SetlangKeepsEnabled ==
    [][\A c \in Chats, a \in SetlangArgs :
          setlang(c, a) => chat_enabled(c)' = chat_enabled(c)]_vars

(* ----------------------------------------------------------------------- *)
\* C3: when the provider's translate call fails for a message, handle_message
\* ends without a reply and without the error leaving handle_message.
C3_TranslateFailureAbsorbed ==
    \A m \in Msgs :
        inv[m].pc \in {"failed", "raised"} =>
            inv[m].replies = << >> /\ inv[m].pc # "raised"

(* ----------------------------------------------------------------------- *)
\* C4 as stated: over any two translate calls on one triple the provider is
\* invoked at most once, and two returned values are equal.
C4_ProviderOncePerTriple ==
    \A m1, m2 \in Msgs :
        (m1 # m2 /\ Translating(m1) /\ Translating(m2)
                 /\ triple(inv[m1]) = triple(inv[m2])) =>
            /\ inv[m1].translate_calls + inv[m2].translate_calls <= 1
            /\ (Returned(m1) /\ Returned(m2) => inv[m1].translated = inv[m2].translated)

\* C4 as amended: a translate call that starts while its triple is in the
\* cache invokes no provider call and returns the value that a
\* provider-invoking call on the same triple returned.
C4_HitNeedsNoProvider ==
    [][\A m \in Msgs :
          (cached_translate_enter(m) /\ InCache(triple(inv[m]))) =>
              /\ inv'[m].translate_calls = 0
              /\ inv'[m].pc = "returned"
              /\ \E m2 \in Msgs \ {m} :
                    /\ Returned(m2)
                    /\ inv[m2].translate_calls = 1
                    /\ triple(inv[m2]) = triple(inv[m])
                    /\ inv'[m].translated = inv[m2].translated]_vars

\* A call returned from the cache.
C4_Witness ==
    \E m \in Msgs : Returned(m) /\ inv[m].translate_calls = 0

(* ----------------------------------------------------------------------- *)
\* C5: an admission check at time t is allowed iff no earlier allowed check
\* of the same key lies less than RATE_SECONDS before t; the stored
\* timestamp of a key is the time of its last allowed check (an allowed
\* check writes t, a rejected check writes nothing).
C5_AllowedIffCooledDown ==
    /\ \A m \in Msgs :
          Checked(m) =>
              (inv[m].admitted <=>
                  ~\E m2 \in 1..(m - 1) :
                      /\ Checked(m2) /\ SameKey(m, m2) /\ inv[m2].admitted
                      /\ inv[m].checked_at - inv[m2].checked_at < RATE_SECONDS)
    /\ \A c \in Chats, u \in Users :
          LET adm == {m \in Msgs : inv[m].admitted /\ inv[m].chat = c /\ inv[m].user = u}
          IN  IF adm = {}
              THEN rate_key(c, u) \notin DOMAIN RATE_LIMIT
              ELSE /\ rate_key(c, u) \in DOMAIN RATE_LIMIT
                   /\ \E m \in adm :
                         /\ \A m2 \in adm : m2 <= m
                         /\ RATE_LIMIT[rate_key(c, u)] = inv[m].checked_at

\* One key was allowed, then rejected, then allowed again.
C5_Witness ==
    \E m1, m2, m3 \in Msgs :
        /\ m1 < m2 /\ m2 < m3 /\ SameKey(m1, m2) /\ SameKey(m2, m3)
        /\ inv[m1].admitted
        /\ Checked(m2) /\ ~inv[m2].admitted
        /\ inv[m3].admitted

(* ----------------------------------------------------------------------- *)
\* m2 is the admission check that precedes m on m's key.
Successive(m2, m) ==
    /\ m2 < m /\ Checked(m2) /\ Checked(m) /\ SameKey(m2, m)
    /\ ~\E k \in (m2 + 1)..(m - 1) : Checked(k) /\ SameKey(k, m)

\* C6 as stated: of two successive checks of a key, the second is rejected
\* when they are less than RATE_SECONDS apart and allowed otherwise.
C6_SuccessiveChecks ==
    \A m2, m \in Msgs :
        Successive(m2, m) =>
            (inv[m].admitted <=> inv[m].checked_at - inv[m2].checked_at >= RATE_SECONDS)

\* C6 as amended: of two successive checks of a key, the second is rejected
\* when the first was allowed and they are less than RATE_SECONDS apart, and
\* the second is allowed when they are RATE_SECONDS or more apart.
C6_SuccessiveChecksAfterAllowed ==
    \A m2, m \in Msgs :
        Successive(m2, m) =>
            LET apart == inv[m].checked_at - inv[m2].checked_at
            IN  /\ (inv[m2].admitted /\ apart < RATE_SECONDS) => ~inv[m].admitted
                /\ apart >= RATE_SECONDS => inv[m].admitted

\* Both cases happened: a check rejected right after an allowed one, and a
\* check allowed exactly RATE_SECONDS after the one before it.
C6_Witness ==
    /\ \E m2, m \in Msgs :
          /\ Successive(m2, m) /\ inv[m2].admitted /\ ~inv[m].admitted
          /\ inv[m].checked_at - inv[m2].checked_at < RATE_SECONDS
    /\ \E m2, m \in Msgs :
          /\ Successive(m2, m) /\ inv[m].admitted
          /\ inv[m].checked_at - inv[m2].checked_at = RATE_SECONDS

(* ----------------------------------------------------------------------- *)
\* C7: a message dispatched (the step that counts it in dispatched and
\* records its chat and user) while its user's or its chat's row is disabled
\* gets no reply, causes no detect and no translate call, and leaves
\* RATE_LIMIT as it was, whatever its text.
C7_DisabledDropsUntouched ==
    [][dispatched' = dispatched + 1 =>
          LET m == dispatched'
              c == inv'[m].chat
              u == inv'[m].user
          IN  (Disabled(chat_settings[c]) \/ Disabled(user_settings[u])) =>
                  /\ RATE_LIMIT' = RATE_LIMIT
                  /\ cache' = cache
                  /\ inv'[m].pc = "dropped"
                  /\ inv'[m].replies = << >>
                  /\ inv'[m].detect_calls = 0
                  /\ inv'[m].translate_calls = 0
                  /\ ~inv'[m].admitted]_vars

\* A message of a disabled user was dropped in a chat that is enabled, and
\* its key has no timestamp.
C7_Witness ==
    \E m \in Msgs :
        /\ inv[m].pc = "dropped" /\ inv[m].gate = "policy"
        /\ Disabled(user_settings[inv[m].user])
        /\ ~Disabled(chat_settings[inv[m].chat])
        /\ rate_key(inv[m].chat, inv[m].user) \notin DOMAIN RATE_LIMIT

(* ----------------------------------------------------------------------- *)
\* C8 as stated: /setlang with a code that is not in SUPPORTED_LANGUAGES
\* answers with the rejection text and leaves both tables as they were.
C8_UnsupportedRejected ==
    [][\A c \in Chats, a \in SetlangArgs :
          (setlang(c, a) /\ a # << >> /\ a[1] \notin SUPPORTED_LANGUAGES) =>
              /\ chat_settings' = chat_settings
              /\ user_settings' = user_settings
              /\ cmd_reply' = <<"Unsupported language. Use /languages">>]_vars

\* C8 as amended: /setlang with a code whose lower-case form is not in
\* SUPPORTED_LANGUAGES answers with the rejection text and leaves both
\* tables as they were.
C8_UnsupportedLowercasedRejected ==
    [][\A c \in Chats, a \in SetlangArgs :
          (setlang(c, a) /\ a # << >> /\ lower(a[1]) \notin SUPPORTED_LANGUAGES) =>
              /\ chat_settings' = chat_settings
              /\ user_settings' = user_settings
              /\ cmd_reply' = <<"Unsupported language. Use /languages">>]_vars

\* A code was rejected in a state where a chat holds a row with a language
\* set earlier.
C8_Witness ==
    /\ cmd_reply = <<"Unsupported language. Use /languages">>
    /\ \E c \in Chats : chat_settings[c] # NoRow /\ chat_settings[c].target_lang = "es"

(* ----------------------------------------------------------------------- *)
\* C9: the target language read for any chat is one of SUPPORTED_LANGUAGES.
C9_TargetSupported ==
    \A c \in Chats : chat_target(c) \in SUPPORTED_LANGUAGES

\* One chat has no row, the other holds a language that was set, and the
\* last /setlang was refused.
C9_Witness ==
    /\ \E c \in Chats : chat_settings[c] = NoRow
    /\ \E c \in Chats : chat_settings[c] # NoRow /\ chat_target(c) # "en"
    /\ cmd_reply = <<"Unsupported language. Use /languages">>

(* ----------------------------------------------------------------------- *)
\* C10 as stated: after the provider call for a triple failed, the cache
\* holds no entry for the triple.
C10_FailureLeavesKeyAbsent ==
    [][\A m \in Msgs :
          provider_raises(m) => ~InCache(triple(inv[m]))']_vars

\* C10 as amended: a failed provider call leaves the cache as it was, so the
\* triple is in the cache only if another call on it returned from the
\* provider; a translate call that finds its triple absent calls the provider.
C10_FailureStoresNothing ==
    [][\A m \in Msgs :
          /\ provider_raises(m) =>
                /\ cache' = cache
                /\ InCache(triple(inv[m]))' =>
                      \E m2 \in Msgs \ {m} :
                          /\ Returned(m2) /\ inv[m2].translate_calls = 1
                          /\ triple(inv[m2]) = triple(inv[m])
          /\ (cached_translate_enter(m) /\ ~InCache(triple(inv[m]))) =>
                /\ inv'[m].pc = "calling"
                /\ inv'[m].translate_calls = 1]_vars

\* A call failed and a later message with the same triple is inside the
\* provider again, the triple being absent from the cache.
C10_Witness ==
    \E m1, m2 \in Msgs :
        /\ m1 < m2
        /\ inv[m1].pc \in {"failed", "raised"}
        /\ inv[m2].pc = "calling"
        /\ triple(inv[m1]) = triple(inv[m2])
        /\ ~InCache(triple(inv[m1]))

(* ----------------------------------------------------------------------- *)
CacheKeys(c) == {c[i].key : i \in 1..Len(c)}

\* The key of the entry of c whose last use is the oldest.
LeastRecentlyUsed(c) ==
    c[CHOOSE i \in 1..Len(c) : \A j \in 1..Len(c) : c[i].used <= c[j].used].key

SameLanguage(r) ==
    /\ r.admitted /\ has_text(r.text) /\ r.detect_calls = 1
    /\ r.src = r.dst

\* C12: a message that passes the policy, admission and text gates and whose
\* detected language equals the chat's target gets no reply and causes no
\* translate call, at its dispatch and ever after, and its dispatch leaves
\* the translation cache as it was.
C12_SameLanguageDropped ==
    [][/\ \A m \in Msgs :
              SameLanguage(inv'[m]) =>
                  /\ inv'[m].pc = "dropped"
                  /\ inv'[m].replies = << >>
                  /\ inv'[m].translate_calls = 0
                  /\ inv'[m].dst = chat_target(inv'[m].chat)
       /\ (dispatched' = dispatched + 1 /\ SameLanguage(inv'[dispatched'])) =>
              cache' = cache]_vars

\* A message in the target language was dropped while the cache holds the
\* translation of another message.
C12_Witness ==
    /\ cache # << >>
    /\ \E m \in Msgs : SameLanguage(inv[m]) /\ inv[m].gate = "same" /\ inv[m].src = "en"

(* ----------------------------------------------------------------------- *)
\* C13: every message gets at most one reply, whatever the interleaving of
\* the invocations and whether the provider answers or fails.
C13_AtMostOneReply ==
    \A m \in Msgs : Len(inv[m].replies) <= 1

\* Two invocations overlapped on one triple; one was answered and the other
\* one's provider call failed.
C13_Witness ==
    \E m1, m2 \in Msgs :
        /\ triple(inv[m1]) = triple(inv[m2])
        /\ inv[m1].translate_calls = 1 /\ inv[m2].translate_calls = 1
        /\ inv[m1].pc = "replied" /\ Len(inv[m1].replies) = 1
        /\ inv[m2].pc = "raised" /\ inv[m2].replies = << >>

(* ----------------------------------------------------------------------- *)
\* C14: an invocation whose translate call returned passed every gate with
\* src # dst, called translate with exactly (text, src, dst), dst being the
\* chat's target, and the value it holds is one the provider returned for
\* that triple; once it has replied, its only reply is made of the
\* uppercased src, the uppercased dst and that value.
C14_ReplyOfTranslation ==
    \A m \in Msgs :
        Returned(m) =>
            LET r == inv[m]
            IN  /\ r.admitted /\ has_text(r.text) /\ r.src # r.dst
                /\ r.dst = chat_target(r.chat)
                /\ InCache(<<r.text, r.src, r.dst>>)
                /\ \E m2 \in Msgs :
                      /\ inv[m2].translate_calls = 1 /\ Returned(m2)
                      /\ inv[m2].text = r.text /\ inv[m2].src = r.src
                      /\ inv[m2].dst = r.dst /\ inv[m2].translated = r.translated
                /\ r.translated \in Translations
                /\ IF r.pc = "replied"
                   THEN r.replies = << <<upper(r.src), upper(r.dst), r.translated>> >>
                   ELSE r.replies = << >>

\* A Spanish text was answered with its translation into English.
C14_Witness ==
    \E m \in Msgs :
        /\ inv[m].pc = "replied" /\ inv[m].text = Hola
        /\ inv[m].replies = << <<"ES", "EN", "tr-a">> >>

(* ----------------------------------------------------------------------- *)
\* C16: when detection fails for a message that passes the policy,
\* admission and text gates, the handler goes on with src = "auto": it calls
\* translate with (text, "auto", the chat's target), and the reply of such an
\* invocation shows AUTO as its source.
C16_DetectFailureGoesOn ==
    [][\A m \in Msgs, c \in Chats, u \in Users, p \in Payloads :
          /\ (/\ handle_message(m, c, u, p, Raises)
              /\ policy_allows(c, u) /\ ~is_rate_limited(rate_key(c, u))
              /\ has_text(text_or_caption(p))) =>
                 /\ inv'[m].pc = "queued"
                 /\ triple(inv'[m]) = <<text_or_caption(p), "auto", chat_target(c)>>
          /\ (reply_text(m) /\ inv[m].src = "auto") =>
                 inv'[m].replies = << <<"AUTO", upper(chat_target(inv[m].chat)),
                                        inv[m].translated>> >>]_vars

\* A message whose detection failed was answered.
C16_Witness ==
    \E m \in Msgs :
        /\ inv[m].pc = "replied" /\ inv[m].src = "auto"
        /\ Len(inv[m].replies) = 1 /\ inv[m].replies[1][1] = "AUTO"

(* ----------------------------------------------------------------------- *)
\* C15: a message without textual payload (no text, no caption) is dropped
\* before the admission check, so its dispatch leaves RATE_LIMIT as it was;
\* and a message is rejected by the admission check only within RATE_SECONDS
\* of an admitted message of its key that carried a textual payload.
C15_NoPayloadLeavesNoTimestamp ==
    [][dispatched' = dispatched + 1 =>
          LET m == dispatched'
          IN  /\ (\E c \in Chats, u \in Users, d \in DetectOutcomes :
                     handle_message(m, c, u, <<NoText, NoText>>, d)) =>
                     RATE_LIMIT' = RATE_LIMIT
              /\ inv'[m].gate = "rate" =>
                     \E m2 \in 1..(m - 1) :
                         /\ inv[m2].admitted /\ inv[m2].text # NoText
                         /\ inv[m2].chat = inv'[m].chat /\ inv[m2].user = inv'[m].user
                         /\ now - inv[m2].checked_at < RATE_SECONDS]_vars

(* ----------------------------------------------------------------------- *)
\* C17: when a message is dispatched less than RATE_SECONDS after the check
\* that admitted an earlier invocation of its key, whatever that invocation
\* is doing in the meantime, the message does not pass the admission check
\* and reaches neither detection nor translation; so of two invocations of
\* one key checked less than RATE_SECONDS apart at most one passes.
C17_AdmissionAtomic ==
    [][dispatched' = dispatched + 1 =>
          LET m == dispatched'
          IN  \A m1 \in 1..(m - 1) :
                  (/\ inv[m1].admitted
                   /\ inv[m1].chat = inv'[m].chat /\ inv[m1].user = inv'[m].user
                   /\ inv'[m].checked_at - inv[m1].checked_at < RATE_SECONDS) =>
                      /\ ~inv'[m].admitted
                      /\ inv'[m].pc = "dropped"
                      /\ inv'[m].detect_calls = 0
                      /\ RATE_LIMIT' = RATE_LIMIT]_vars

\* A message was rejected while the invocation of an earlier message of its
\* key, admitted less than RATE_SECONDS before, was inside the provider call.
C17_Witness ==
    \E m1, m2 \in Msgs :
        /\ m1 < m2 /\ SameKey(m1, m2)
        /\ inv[m1].admitted /\ inv[m1].pc = "calling"
        /\ Checked(m2) /\ inv[m2].gate = "rate"
        /\ inv[m2].checked_at - inv[m1].checked_at < RATE_SECONDS

(* ----------------------------------------------------------------------- *)
\* C19: under a fair scheduler and a provider whose calls return or fail,
\* every invocation that passed the admission check ends: it has replied, it
\* was dropped, or the failure of its translate call has ended it.
C19_AdmittedTerminates ==
    \A m \in Msgs :
        inv[m].admitted ~> inv[m].pc \in {"replied", "dropped", "raised"}

\* One admitted invocation ended with its reply and another one with the
\* failure of its provider call.
C19_Witness ==
    \E m1, m2 \in Msgs :
        /\ inv[m1].admitted /\ inv[m1].pc = "replied"
        /\ inv[m2].admitted /\ inv[m2].pc = "raised"

(* ----------------------------------------------------------------------- *)
\* C20: the target language is read once per message: the target shown in
\* the reply is the one that was passed to translate, whatever /setlang,
\* /translate_off and /user_off did while the call was in flight; and the
\* reply of an invocation whose call returned is due whatever the tables
\* hold by then.
C20_TargetReadOnce ==
    \A m \in Msgs :
        /\ inv[m].pc = "returned" => ENABLED reply_text(m)
        /\ inv[m].pc = "replied" =>
              /\ Len(inv[m].replies) = 1
              /\ inv[m].replies[1][2] = upper(inv[m].dst)
              /\ InCache(<<inv[m].text, inv[m].src, inv[m].dst>>)

\* The translation of a message has come back after its user was disabled
\* and its chat's target was changed; another message was answered in a
\* language that is no longer its chat's target.
C20_Witness ==
    \E m1, m2 \in Msgs :
        /\ inv[m1].pc = "replied"
        /\ inv[m1].replies[1][2] # upper(chat_target(inv[m1].chat))
        /\ inv[m2].pc = "returned"
        /\ Disabled(user_settings[inv[m2].user])
        /\ chat_target(inv[m2].chat) # inv[m2].dst

====
